---- MODULE Spec2Model ----
(***************************************************************************)
(* RabbitMQConnectionFacade (mercury): broker topology provisioning, the   *)
(* consume callback, the three outcome listeners and publish, together     *)
(* with the part of the RabbitMQ broker the facade drives: routing through *)
(* the declared exchanges and bindings, unacknowledged deliveries,         *)
(* dead-lettering on nack / TTL expiry and the x-death history.            *)
(***************************************************************************)
EXTENDS Integers, Sequences, FiniteSets, TLC

(* ------------------------------ bounds -------------------------------- *)
\* broker message slots: how many messages ever enter the broker in a run
NumMsgs == 2

(* --------------------------- names, constants ------------------------- *)
\* constructor arguments of the facade under study
serviceName == "svc"
appName == "app"
\* delayRetry, in seconds
delayRetry == 1

main_bus == "mercury_bus"
exchange == serviceName
deadLetterExchange == "svc_dlx"
queue == "svc_queue"
retryQueue == "svc_queue_retry"

\* maxRetries = maxRetries ? maxRetries : 60
DefaultMaxRetries == 60

\* one clock tick, in milliseconds (half a second)
TickMs == 1000 \div 2

\* JavaScript undefined, for a string-valued property
Undefined == "<undefined>"
\* messagePool.get(id) of an absent key: no raw delivery
NoMsg == 0
\* a raw delivery still held in the table whose delivery tag the broker has settled
Stale == 0 - 1

Msgs == 1..NumMsgs
\* message identifiers that occur; "" is a present but falsy identifier
Ids == {"a", "b"}
\* (messageId, appId, parentMessage) of the messages other publishers send
PublishedProps ==
    { <<"a", appName, "b">>, <<"b", appName, Undefined>>,
      <<Undefined, appName, Undefined>>, <<"a", "other", Undefined>> }
\* routing keys / descriptors; the application registers handlers for Topics only
Descriptors == {"t", "u"}
Topics == {"t"}

(* ------------------------------ state --------------------------------- *)
VARIABLES
    pc,           \* position of connect(): "new", "setUp", "ready" or "failed"
    exchanges,    \* broker: declared exchanges, name -> type
    queues,       \* broker: declared queues, name -> [dlx, ttl]
    bindings,     \* broker: set of [kind, source, destination, key]
    declLog,      \* the topology calls connect() has issued, in order
    channel,      \* "none", "open" or "closed"
    msg,          \* broker message slot -> its properties and fields
    loc,          \* slot -> "none" (free), a queue's name, "unacked" or "lost"
    age,          \* slot -> ms the message has waited in a queue with a time-to-live
    retryNacks,   \* slot -> retry-nacks the message has received so far
    appMsg,       \* slot -> application message emitted for its delivery
    messagePool,  \* the in-flight table: identifier -> slot, NoMsg or Stale
    last,         \* what the callback that is returning did: see Did
    handlerArg,   \* maxRetries the always-failing handler of SpecRetry passes
    connection    \* held: this.connection is set; state: "none", "open" or "closed"

vars == <<pc, exchanges, queues, bindings, declLog, channel, msg, loc, age,
          retryNacks, appMsg, messagePool, last, handlerArg, connection>>

topoVars == <<exchanges, queues, bindings, declLog>>
msgVars == <<msg, loc, age, retryNacks, appMsg, messagePool>>

(* --------------------------- setUp (topology) ------------------------- *)
NoDlx == "<none>"
NoTtl == 0 - 1

\* variant: the delay is handed over in seconds
retryTtlSeconds == delayRetry

\* 'x-message-ttl': this.delayRetry * 1000
retryTtl == delayRetry * 1000

ExStep(name, type) ==
    [op |-> "assertExchange", name |-> name, type |-> type, dlx |-> NoDlx,
     ttl |-> NoTtl, source |-> NoDlx, key |-> ""]
QStep(name, dlx, ttl) ==
    [op |-> "assertQueue", name |-> name, type |-> "queue", dlx |-> dlx,
     ttl |-> ttl, source |-> NoDlx, key |-> ""]
BindStep(op, dest, source, key) ==
    [op |-> op, name |-> dest, type |-> "binding", dlx |-> NoDlx,
     ttl |-> NoTtl, source |-> source, key |-> key]

\* variant: the retry queue is declared after the bindings
SetUpStepsRetryLast ==
    << ExStep(main_bus, "fanout"),
       ExStep(exchange, "direct"),
       ExStep(deadLetterExchange, "fanout"),
       QStep(queue, deadLetterExchange, NoTtl),
       BindStep("bindExchange", exchange, main_bus, ""),
       BindStep("bindQueue", retryQueue, deadLetterExchange, ""),
       QStep(retryQueue, exchange, delayRetry * 1000) >>

\* the awaited calls of setUp(), in program order
SetUpSteps ==
    << ExStep(main_bus, "fanout"),
       ExStep(exchange, "direct"),
       ExStep(deadLetterExchange, "fanout"),
       QStep(queue, deadLetterExchange, NoTtl),
       QStep(retryQueue, exchange, retryTtl),
       BindStep("bindExchange", exchange, main_bus, ""),
       BindStep("bindQueue", retryQueue, deadLetterExchange, "") >>

(* ------------------------------ broker -------------------------------- *)
Blank ==
    [messageId |-> Undefined, appId |-> Undefined, routingKey |-> "",
     parentMessage |-> Undefined, xdeath |-> <<>>]

NoAppMsg ==
    [made |-> FALSE, descriptor |-> "", uuid |-> Undefined, parent |-> Undefined]

\* JavaScript truthiness of a string-valued property
Truthy(s) == s # Undefined /\ s # ""


ExchangeNames == {e.name : e \in exchanges}
QueueNames == {q.name : q \in queues}
ExchangeType(name) == (CHOOSE e \in exchanges : e.name = name).type
QueueOf(name) == CHOOSE q \in queues : q.name = name

\* variant: a name that exists is refused
StepOkFresh(s) ==
    CASE s.op = "assertExchange" -> s.name \notin {e.name : e \in exchanges}
      [] s.op = "assertQueue" -> s.name \notin {q.name : q \in queues}
      [] OTHER -> TRUE

\* declare semantics: an identical declaration succeeds, a conflicting one is refused;
\* a binding needs both of its ends
StepOk(s) ==
    CASE s.op = "assertExchange" ->
            \A e \in exchanges : e.name = s.name => e.type = s.type
      [] s.op = "assertQueue" ->
            \A q \in queues : q.name = s.name => (q.dlx = s.dlx /\ q.ttl = s.ttl)
      [] s.op = "bindExchange" ->
            s.name \in ExchangeNames /\ s.source \in ExchangeNames
      [] s.op = "bindQueue" ->
            s.name \in QueueNames /\ s.source \in ExchangeNames

BindingOf(s) ==
    [kind |-> IF s.op = "bindQueue" THEN "queue" ELSE "exchange",
     source |-> s.source, destination |-> s.name, key |-> s.key]

\* a fanout exchange ignores the routing key, a direct exchange matches it exactly
Matches(b, key) == ExchangeType(b.source) = "fanout" \/ b.key = key

RECURSIVE RouteFrom(_, _, _)
RouteFrom(ex, key, fuel) ==
    IF fuel = 0 \/ ex \notin ExchangeNames THEN {}
    ELSE LET bs == {b \in bindings : b.source = ex /\ Matches(b, key)}
         IN  {b.destination : b \in {x \in bs : x.kind = "queue"}}
             \cup UNION {RouteFrom(b.destination, key, fuel - 1) :
                            b \in {x \in bs : x.kind = "exchange"}}

\* the queues a message published to exchange ex with this routing key reaches
Route(ex, key) == RouteFrom(ex, key, Cardinality(exchanges))

\* the x-death header after one more death: one entry per (queue, reason), its
\* count incremented, the most recent entry first
Death(xd, q, reason) ==
    LET same(i) == xd[i].queue = q /\ xd[i].reason = reason
        hit == {i \in 1..Len(xd) : same(i)}
        old == IF hit = {} THEN 0 ELSE xd[CHOOSE i \in hit : TRUE].count
        rest == SelectSeq(xd, LAMBDA e : ~(e.queue = q /\ e.reason = reason))
    IN  <<[queue |-> q, reason |-> reason, count |-> old + 1]>> \o rest

\* the state the broker operations transform
Cur ==
    [msg |-> msg, loc |-> loc, age |-> age, retryNacks |-> retryNacks,
     appMsg |-> appMsg, pool |-> messagePool, channel |-> channel]

Enqueue(b, m, q) ==
    [b EXCEPT !.loc[m] = q, !.age[m] = 0]

\* the broker is done with the message in slot m: the slot is free again, and a raw
\* delivery of it that the table still holds has a settled delivery tag
Settle(b, m) ==
    [b EXCEPT !.msg[m] = Blank, !.loc[m] = "none", !.age[m] = 0,
              !.retryNacks[m] = 0, !.appMsg[m] = NoAppMsg,
              !.pool = [i \in Ids |-> IF b.pool[i] = m THEN Stale ELSE b.pool[i]]]

\* dead-lettering of m out of queue fromQ: through the queue's dead-letter exchange
\* with the message's own routing key; no exchange or no route loses the message
DeadLetter(b, m, fromQ, reason) ==
    LET dlx == QueueOf(fromQ).dlx
        targets == IF dlx = NoDlx THEN {} ELSE Route(dlx, b.msg[m].routingKey)
        b1 == [b EXCEPT !.msg[m].xdeath = Death(@, fromQ, reason)]
    IN  IF targets = {}
        THEN [b1 EXCEPT !.loc[m] = "lost", !.age[m] = 0]
        ELSE Enqueue(b1, m, CHOOSE q \in targets : TRUE)

\* the broker closes the channel: its unacknowledged deliveries are requeued and their
\* delivery tags are settled
Requeue(b) ==
    [b EXCEPT !.channel = "closed",
              !.loc = [m \in Msgs |-> IF b.loc[m] = "unacked" THEN queue ELSE b.loc[m]],
              !.pool = [i \in Ids |-> IF b.pool[i] = NoMsg THEN NoMsg ELSE Stale]]

\* channel.ack(message) on an open channel: the broker drops the message; a settled
\* delivery tag is an unknown tag, for which the broker closes the channel
BrokerAck(b, m) ==
    IF m # Stale /\ b.loc[m] = "unacked" THEN Settle(b, m) ELSE Requeue(b)

\* channel.nack(message, false, false): rejected without requeue, so dead-lettered
\* out of the primary queue
BrokerNack(b, m) ==
    IF m # Stale /\ b.loc[m] = "unacked"
    THEN DeadLetter([b EXCEPT !.retryNacks[m] = @ + 1], m, queue, "rejected")
    ELSE Requeue(b)

(* ------------------------------ values -------------------------------- *)
\* application Message objects a handler may hand back; ok = FALSE is a message whose
\* serialization throws inside publish; "u" is a descriptor this service is not bound to
Good1 == [uuid |-> "a", parent |-> "b", descriptor |-> "t", ok |-> TRUE]
Good2 == [uuid |-> "b", parent |-> Undefined, descriptor |-> "u", ok |-> TRUE]
Bad == [uuid |-> "b", parent |-> "a", descriptor |-> "t", ok |-> FALSE]

\* the resultingMessages lists handlers pass
ResultLists ==
    { <<>>, <<Good1, Good2>>, <<Good2, Bad>> }

\* maxRetries as passed with an error signal: <<>> when not provided, else <<n>>
MaxRetriesArgs == {<<1>>, <<0 - 1>>}

\* the other arguments of a callback: maxRetries, resultingMessages, and what the
\* clock reads while it runs
Args(mr, list, time) == [mr |-> mr, list |-> list, time |-> time]
NoArgs == Args(<<>>, <<>>, 0)

\* what the callback that is returning was and did: which callback, the identifier it
\* was about, its other arguments, the call it made on a raw delivery ("ack", "nack",
\* or "track" for messagePool.set), the exception that escaped it, how many times it
\* called publish() and the channel.publish (for subscribeAll: channel.bindQueue)
\* calls made; Quiet when no callback runs
Did(op, id, args, res, exc, calls, published) ==
    [op |-> op, id |-> id, args |-> args, res |-> res, exc |-> exc, calls |-> calls,
     published |-> published]
Quiet == Did("none", Undefined, NoArgs, "none", "none", 0, <<>>)

(* ------------------------------ publish ------------------------------- *)
\* the options and arguments publish() hands to channel.publish
PublishCall(message, alternativeExchange, time) ==
    [exchange |-> IF Truthy(alternativeExchange) THEN alternativeExchange ELSE main_bus,
     routingKey |-> message.descriptor,
     messageId |-> message.uuid,
     parentMessage |-> message.parent,
     timestamp |-> time,
     appId |-> appName,
     persistent |-> TRUE]

FreeSlots(b) == {m \in Msgs : b.loc[m] = "none"}
MinOf(S) == CHOOSE x \in S : \A y \in S : x <= y

\* the broker takes a published message: routed from the exchange, or discarded
\* when no queue is reached; fits = FALSE when the model has no slot left for it
BrokerPublish(p, call) ==
    LET targets == Route(call.exchange, call.routingKey)
        slot == MinOf(FreeSlots(p.b))
        m0 == [messageId |-> call.messageId, appId |-> call.appId,
               routingKey |-> call.routingKey, parentMessage |-> call.parentMessage,
               xdeath |-> <<>>]
    IN  IF targets = {} THEN p
        ELSE IF FreeSlots(p.b) = {} THEN [p EXCEPT !.fits = FALSE]
        ELSE [p EXCEPT !.b = Enqueue([p.b EXCEPT !.msg[slot] = m0], slot,
                                     CHOOSE q \in targets : TRUE)]

\* publish(message): p carries the broker state, the channel.publish calls made so
\* far, the exception thrown, if any, what new Date().getTime() returns, and whether
\* the broker still takes this channel's frames (it discards those that follow a
\* frame it closes the channel for)
publish(p, message) ==
    IF p.exc # "none" THEN p
    ELSE IF ~message.ok THEN [p EXCEPT !.calls = @ + 1, !.exc = "TypeError"]
    ELSE LET call == PublishCall(message, Undefined, p.time)
             p1 == [p EXCEPT !.calls = @ + 1, !.published = Append(@, call)]
         IN  CASE p.b.channel = "closed" -> [p1 EXCEPT !.exc = "IllegalOperationError"]
               [] p.b.channel # "closed" /\ ~p.live -> p1
               [] OTHER -> BrokerPublish(p1, call)

\* for (const message of resultingMessages) this.publish(message)
RECURSIVE PublishAll(_, _)
PublishAll(p, list) ==
    IF list = <<>> THEN p
    ELSE PublishAll(publish(p, Head(list)), Tail(list))

Started(b, time, live) ==
    [b |-> b, calls |-> 0, published |-> <<>>, exc |-> "none", fits |-> TRUE,
     time |-> time, live |-> live]

(* ------------------------------ actions ------------------------------- *)
\* callbacks run to completion, one at a time
Idle == last = Quiet

SetBroker(b) ==
    /\ msg' = b.msg
    /\ loc' = b.loc
    /\ age' = b.age
    /\ retryNacks' = b.retryNacks
    /\ appMsg' = b.appMsg
    /\ messagePool' = b.pool
    /\ channel' = b.channel

Init ==
    /\ pc = "new"
    /\ exchanges = {}
    /\ queues = {}
    /\ bindings = {}
    /\ declLog = <<>>
    /\ channel = "none"
    /\ msg = [m \in Msgs |-> Blank]
    /\ loc = [m \in Msgs |-> "none"]
    /\ age = [m \in Msgs |-> 0]
    /\ retryNacks = [m \in Msgs |-> 0]
    /\ appMsg = [m \in Msgs |-> NoAppMsg]
    /\ messagePool = [i \in Ids |-> NoMsg]
    /\ last = Quiet
    /\ handlerArg = <<>>
    /\ connection = [held |-> FALSE, state |-> "none"]

\* connect(): the connection and the channel are there, setUp() is next
Connect ==
    /\ Idle
    /\ pc = "new"
    /\ pc' = "setUp"
    /\ connection' = [held |-> TRUE, state |-> "open"]
    /\ channel' = "open"
    /\ UNCHANGED last
    /\ UNCHANGED <<topoVars, msgVars, handlerArg>>

\* the broker's answer to one declaration or binding
Declare(s) ==
    /\ exchanges' = IF s.op = "assertExchange"
                    THEN exchanges \cup {[name |-> s.name, type |-> s.type]}
                    ELSE exchanges
    /\ queues' = IF s.op = "assertQueue"
                 THEN queues \cup {[name |-> s.name, dlx |-> s.dlx, ttl |-> s.ttl]}
                 ELSE queues
    /\ bindings' = IF s.op \in {"bindExchange", "bindQueue"}
                   THEN bindings \cup {BindingOf(s)}
                   ELSE bindings

\* one awaited call of setUp(); after the last one connect() registers the three
\* listeners and the consume callback in the same turn. A refused call closes the
\* channel and connect() throws.
SetUpStep ==
    /\ Idle
    /\ pc = "setUp"
    /\ LET s == SetUpSteps[Len(declLog) + 1]
       IN  /\ declLog' = Append(declLog, s)
           /\ IF StepOk(s)
              THEN /\ Declare(s)
                   /\ pc' = IF Len(declLog) + 1 = Len(SetUpSteps) THEN "ready" ELSE "setUp"
                   /\ channel' = channel
              ELSE /\ UNCHANGED <<exchanges, queues, bindings>>
                   /\ pc' = "failed"
                   /\ channel' = "closed"
    /\ UNCHANGED last
    /\ UNCHANGED <<msgVars, handlerArg, connection>>

\* subscribe(descriptor): channel.bindQueue(this.queue, this.exchange, descriptor)
Subscribe(descriptor) ==
    /\ Idle
    /\ pc = "ready"
    /\ channel = "open"
    /\ LET s == BindStep("bindQueue", queue, exchange, descriptor)
       IN  /\ StepOk(s)
           /\ BindingOf(s) \notin bindings
           /\ Declare(s)
    /\ UNCHANGED last
    /\ UNCHANGED <<pc, declLog, channel, msgVars, handlerArg, connection>>

\* another publisher (or another application copy) publishes to the shared exchange
\* while the facade's channel is in use
ExternalPublish(id, app, parent, key) ==
    /\ Idle
    /\ channel = "open"
    /\ main_bus \in ExchangeNames
    /\ LET call == [exchange |-> main_bus, routingKey |-> key, messageId |-> id,
                    parentMessage |-> parent, timestamp |-> 0, appId |-> app,
                    persistent |-> TRUE]
           p == BrokerPublish(Started(Cur, 0, TRUE), call)
       IN  /\ p.fits
           /\ p.b # Cur
           /\ SetBroker(p.b)
    /\ UNCHANGED last
    /\ UNCHANGED <<pc, topoVars, handlerArg, connection>>

\* variant: the application tag is not compared
TrackedAnyApp(m0) == Truthy(m0.messageId)

\* the consume callback's test: the delivery is this application's and can be tracked
Tracked(m0) == m0.appId = appName /\ Truthy(m0.messageId)

\* variant: identifier and parent change places
JSONMessageSwapped(m0) ==
    [made |-> TRUE, descriptor |-> m0.routingKey, uuid |-> m0.parentMessage,
     parent |-> m0.messageId]

\* new JSONMessage(descriptor, content, messageId, timestamp, headers.parentMessage)
JSONMessage(m0) ==
    [made |-> TRUE, descriptor |-> m0.routingKey, uuid |-> m0.messageId,
     parent |-> m0.parentMessage]

\* the broker delivers m from the primary queue and the consume callback runs
Consume(m) ==
    /\ Idle
    /\ pc = "ready"
    /\ channel = "open"
    /\ loc[m] = queue
    /\ LET b0 == [Cur EXCEPT !.loc[m] = "unacked", !.age[m] = 0]
       IN  IF Tracked(msg[m])
           THEN /\ SetBroker([b0 EXCEPT !.pool[msg[m].messageId] = m,
                                        !.appMsg[m] = JSONMessage(msg[m])])
                /\ last' = Did("consume", msg[m].messageId, NoArgs, "track", "none", 0, <<>>)
           ELSE /\ SetBroker(BrokerAck(b0, m))
                /\ last' = Did("consume", msg[m].messageId, NoArgs, "ack", "none", 0, <<>>)
    /\ UNCHANGED <<pc, topoVars, handlerArg, connection>>

\* maxRetries = maxRetries ? maxRetries : 60
Limit(maxRetries) ==
    IF maxRetries # <<>> /\ maxRetries[1] # 0 THEN maxRetries[1] ELSE DefaultMaxRetries

\* variant: the comparison is not strict
ShouldRetryLe(xdeath, limit) == xdeath = <<>> \/ xdeath[1].count <= limit

\* variant: a delivery without history counts as over the limit
ShouldRetryHist(xdeath, limit) == xdeath # <<>> /\ xdeath[1].count < limit

\* !headers['x-death'] || headers['x-death'][0].count < maxRetries
ShouldRetry(xdeath, limit) == xdeath = <<>> \/ xdeath[1].count < limit

\* the MESSAGE_PROCESS_ERROR listener of a listener set whose table and channel are
\* those of b: the broker state it leaves and what it did. The raw delivery of a
\* stale entry is an object of the program still, so its headers are read without
\* error; either call on it is a call on a settled delivery tag.
ErrorRun(b, messageId, maxRetries) ==
    LET message == b.pool[messageId]
        args == Args(maxRetries, <<>>, 0)
        b0 == [b EXCEPT !.pool[messageId] = NoMsg]
        retry == message = Stale \/ ShouldRetry(b.msg[message].xdeath, Limit(maxRetries))
    IN  CASE message = NoMsg ->
               \* message.properties of undefined
               [b |-> b0, fits |-> TRUE,
                did |-> Did("error", messageId, args, "none", "TypeError", 0, <<>>)]
          [] message # NoMsg /\ b.channel = "closed" ->
               [b |-> b0, fits |-> TRUE,
                did |-> Did("error", messageId, args, "none",
                            "IllegalOperationError", 0, <<>>)]
          [] message # NoMsg /\ b.channel # "closed" /\ retry ->
               [b |-> BrokerNack(b0, message), fits |-> TRUE,
                did |-> Did("error", messageId, args, "nack", "none", 0, <<>>)]
          [] OTHER ->
               [b |-> BrokerAck(b0, message), fits |-> TRUE,
                did |-> Did("error", messageId, args, "ack", "none", 0, <<>>)]

ErrorListener(messageId, maxRetries) ==
    /\ Idle
    /\ pc = "ready"
    /\ LET r == ErrorRun(Cur, messageId, maxRetries)
       IN  /\ last' = r.did
           /\ SetBroker(r.b)
    /\ UNCHANGED <<pc, topoVars, handlerArg, connection>>

\* the MESSAGE_PROCESS_SUCCESS listener of a listener set whose table and channel
\* are those of b; given = FALSE is a signal without resultingMessages, time is what
\* the clock reads while the listener runs
SuccessRun(b, messageId, given, resultingMessages, time) ==
    LET message == b.pool[messageId]
        list == IF given THEN resultingMessages ELSE <<>>
        args == Args(<<>>, list, time)
        live == message # Stale /\ b.loc[message] = "unacked"
        \* this.channel.ack(messagePool.get(messageId))
        acked == IF live THEN BrokerAck(b, message) ELSE b
        p == PublishAll(Started(acked, time, live), list)
        \* messagePool.delete(messageId), not reached when publish threw
        b1 == IF p.exc = "none" THEN [p.b EXCEPT !.pool[messageId] = NoMsg] ELSE p.b
    IN  CASE message = NoMsg ->
               \* channel.ack(undefined) reads message.fields and throws
               [b |-> b, fits |-> TRUE,
                did |-> Did("success", messageId, args, "none", "TypeError", 0, <<>>)]
          [] message # NoMsg /\ b.channel = "closed" ->
               [b |-> b, fits |-> TRUE,
                did |-> Did("success", messageId, args, "none",
                            "IllegalOperationError", 0, <<>>)]
          [] OTHER ->
               [b |-> IF live THEN b1 ELSE Requeue(b1), fits |-> p.fits,
                did |-> Did("success", messageId, args, "ack", p.exc, p.calls,
                            p.published)]

SuccessListener(messageId, given, resultingMessages, time) ==
    /\ Idle
    /\ pc = "ready"
    /\ LET r == SuccessRun(Cur, messageId, given, resultingMessages, time)
       IN  /\ r.fits
           /\ last' = r.did
           /\ SetBroker(r.b)
    /\ UNCHANGED <<pc, topoVars, handlerArg, connection>>

\* the PROCESS_SUCCESS listener
BroadcastListener(given, resultingMessages, time) ==
    /\ Idle
    /\ pc = "ready"
    /\ LET p == PublishAll(Started(Cur, time, TRUE), IF given THEN resultingMessages ELSE <<>>)
       IN  /\ p.fits
           /\ last' = Did("broadcast", Undefined,
                          Args(<<>>, IF given THEN resultingMessages ELSE <<>>, time),
                          "none", p.exc, p.calls, p.published)
           /\ SetBroker(p.b)
    /\ UNCHANGED <<pc, topoVars, handlerArg, connection>>

\* m waits in a queue that has a time-to-live
Waiting(m) == loc[m] \in QueueNames /\ QueueOf(loc[m]).ttl # NoTtl

\* a message has waited its queue's x-message-ttl and is dead-lettered. (The broker
\* is followed while the facade's channel is in use.)
Expire(m) ==
    /\ Idle
    /\ channel # "closed"
    /\ Waiting(m)
    /\ age[m] >= QueueOf(loc[m]).ttl
    /\ SetBroker(DeadLetter(Cur, m, loc[m], "expired"))
    /\ UNCHANGED last
    /\ UNCHANGED <<pc, topoVars, handlerArg, connection>>

\* time passes for the waiting messages; the broker expires a message as soon as its
\* time-to-live is over, so time does not pass over one that is due
Tick ==
    /\ Idle
    /\ channel # "closed"
    /\ \E m \in Msgs : Waiting(m)
    /\ \A m \in Msgs : Waiting(m) => age[m] < QueueOf(loc[m]).ttl
    /\ age' = [m \in Msgs |-> IF Waiting(m) THEN age[m] + TickMs ELSE age[m]]
    /\ UNCHANGED last
    /\ UNCHANGED <<pc, topoVars, channel, msg, loc, retryNacks, appMsg, messagePool,
                   handlerArg, connection>>

\* what new Date().getTime() may return
ClockReadings == {TickMs, TickMs + TickMs}

EmitError == \E id \in Ids, mr \in MaxRetriesArgs : ErrorListener(id, mr)
EmitSuccess ==
    \E id \in Ids, given \in BOOLEAN, rm \in ResultLists, t \in ClockReadings :
        (given \/ rm = <<>>) /\ SuccessListener(id, given, rm, t)
EmitBroadcast ==
    \E given \in BOOLEAN, rm \in ResultLists, t \in ClockReadings :
        (given \/ rm = <<>>) /\ BroadcastListener(given, rm, t)
\* the callback returns to the event loop
Return ==
    /\ ~Idle
    /\ last' = Quiet
    /\ UNCHANGED <<pc, topoVars, channel, msgVars, handlerArg, connection>>

Publishes ==
    \E h \in PublishedProps, key \in Descriptors : ExternalPublish(h[1], h[2], h[3], key)

Next ==
    \/ Connect
    \/ SetUpStep
    \/ \E d \in Topics : Subscribe(d)
    \/ Publishes
    \/ \E m \in Msgs : Consume(m)
    \/ EmitError
    \/ EmitSuccess
    \/ EmitBroadcast
    \/ \E m \in Msgs : Expire(m)
    \/ Tick
    \/ Return

Spec == Init /\ [][Next]_vars

(* --------------- bounded redelivery: a handler that always fails ------- *)
\* maxRetries the failing handler passes: not provided (the default limit), 1, 2 or 3
HandlerArgs == {<<>>, <<1>>, <<2>>, <<3>>}

InitRetry ==
    /\ pc = "new"
    /\ exchanges = {}
    /\ queues = {}
    /\ bindings = {}
    /\ declLog = <<>>
    /\ channel = "none"
    /\ msg = [m \in Msgs |-> Blank]
    /\ loc = [m \in Msgs |-> "none"]
    /\ age = [m \in Msgs |-> 0]
    /\ retryNacks = [m \in Msgs |-> 0]
    /\ appMsg = [m \in Msgs |-> NoAppMsg]
    /\ messagePool = [i \in Ids |-> NoMsg]
    /\ last = Quiet
    /\ handlerArg \in HandlerArgs
    /\ connection = [held |-> FALSE, state |-> "none"]

\* one message at a time enters the broker, with no dead-letter history
PublishOne ==
    /\ FreeSlots(Cur) = Msgs
    /\ ExternalPublish("a", appName, Undefined, "t")

\* the handler of every dispatched message signals Error
HandlerFails ==
    \E id \in Ids : messagePool[id] \in Msgs /\ ErrorListener(id, handlerArg)

NextRetry ==
    \/ Connect
    \/ SetUpStep
    \/ \E d \in Topics : Subscribe(d)
    \/ PublishOne
    \/ \E m \in Msgs : Consume(m)
    \/ HandlerFails
    \/ \E m \in Msgs : Expire(m)
    \/ Tick
    \/ Return

SpecRetry == InitRetry /\ [][NextRetry]_vars

(* --------------- provisioning again on a provisioned broker ------------ *)
\* setUp() is started once more for the same descriptor (the service restarts, or
\* connects again): pc = "again" while its calls are issued
Reprovision ==
    /\ Idle
    /\ pc = "ready"
    /\ channel = "open"
    /\ Len(declLog) = Len(SetUpSteps)
    /\ pc' = "again"
    /\ UNCHANGED last
    /\ UNCHANGED <<topoVars, channel, msgVars, handlerArg, connection>>

\* one awaited call of the second setUp()
SetUpAgainStep ==
    /\ Idle
    /\ pc = "again"
    /\ LET s == SetUpSteps[Len(declLog) - Len(SetUpSteps) + 1]
       IN  /\ declLog' = Append(declLog, s)
           /\ IF StepOk(s)
              THEN /\ Declare(s)
                   /\ pc' = IF Len(declLog) + 1 = 2 * Len(SetUpSteps)
                            THEN "ready" ELSE "again"
                   /\ channel' = channel
              ELSE /\ UNCHANGED <<exchanges, queues, bindings>>
                   /\ pc' = "failed"
                   /\ channel' = "closed"
    /\ UNCHANGED last
    /\ UNCHANGED <<msgVars, handlerArg, connection>>

\* messages of this application arrive while there is room
PublishSome ==
    \E id \in Ids : ExternalPublish(id, appName, Undefined, "t")

\* the handler of a dispatched message signals Error, with maxRetries 1
FailsOnce ==
    \E id \in Ids : messagePool[id] \in Msgs /\ ErrorListener(id, <<1>>)

NextSetUp ==
    \/ Connect
    \/ SetUpStep
    \/ \E d \in Topics : Subscribe(d)
    \/ PublishSome
    \/ \E m \in Msgs : Consume(m)
    \/ FailsOnce
    \/ \E m \in Msgs : Expire(m)
    \/ Tick
    \/ Return
    \/ Reprovision
    \/ SetUpAgainStep

SpecSetUp == Init /\ [][NextSetUp]_vars

(* --------------- round trip: the facade's own publishes come back ------ *)
\* every message in the broker was published by publish(); the application has
\* handlers for every descriptor
NextRoundTrip ==
    \/ Connect
    \/ SetUpStep
    \/ \E d \in Descriptors : Subscribe(d)
    \/ EmitBroadcast
    \/ \E m \in Msgs : Consume(m)
    \/ EmitSuccess
    \/ Return

SpecRoundTrip == Init /\ [][NextRoundTrip]_vars

(* --------------- subscribeAll and RabbitMQMessageBus.configure --------- *)
\* what subscribeAll may be handed: an array of descriptors, null, or a Map whose
\* keys are the descriptors
DescriptorsArg(kind, items) == [kind |-> kind, items |-> items]
SubscribeArgs ==
    { DescriptorsArg("array", <<>>), DescriptorsArg("array", <<"t", "u">>),
      DescriptorsArg("array", <<"u">>), DescriptorsArg("null", <<>>),
      DescriptorsArg("map", <<"t", "u">>) }

\* variant: whatever can be iterated counts as a list
IsArrayOrMap(descriptors) == descriptors.kind \in {"array", "map"}

\* Array.isArray(descriptors)
IsArray(descriptors) == descriptors.kind = "array"

\* for (const descriptor of descriptors) await this.subscribe(descriptor): t carries
\* the bindings and the channel.bindQueue calls made so far
RECURSIVE subscribeEach(_, _)
subscribeEach(t, items) ==
    IF items = <<>> THEN t
    ELSE LET s == BindStep("bindQueue", queue, exchange, Head(items))
         IN  subscribeEach([bindings |-> t.bindings \cup {BindingOf(s)},
                            calls |-> Append(t.calls, s)], Tail(items))

\* subscribeAll(descriptors) on the open channel of a provisioned broker; op names
\* the caller's position ("subscribeAll", or "configure" for the call in configure)
subscribeAll(op, descriptors) ==
    /\ Idle
    /\ pc = "ready"
    /\ channel = "open"
    /\ LET t == IF IsArray(descriptors)
                THEN subscribeEach([bindings |-> bindings, calls |-> <<>>],
                                   descriptors.items)
                ELSE [bindings |-> bindings, calls |-> <<>>]
       IN  /\ bindings' = t.bindings
           /\ last' = Did(op, descriptors.kind, Args(<<>>, descriptors.items, 0),
                          "none", "none", 0, t.calls)
    /\ UNCHANGED <<pc, exchanges, queues, declLog, channel, msgVars, handlerArg, connection>>

EmitSubscribeAll == \E d \in SubscribeArgs : subscribeAll("subscribeAll", d)

\* Reflect.getMetadata('messageBindings', Mercury): a Map, keyed by descriptor
messageBindings == DescriptorsArg("map", <<"t", "u">>)

\* RabbitMQMessageBus.configure after connect() has returned: subscribeAll with the
\* metadata, then return true
Configure == subscribeAll("configure", messageBindings)

NextSubscribe ==
    \/ Connect
    \/ SetUpStep
    \/ EmitSubscribeAll
    \/ Configure
    \/ Publishes
    \/ \E m \in Msgs : Consume(m)
    \/ EmitSuccess
    \/ Return

SpecSubscribe == Init /\ [][NextSubscribe]_vars

(* ------------------------------ disconnect ----------------------------- *)
\* the connection of a facade in service is lost (the broker goes away, the network
\* fails): its channel is closed with it; this.connection keeps the closed connection
ConnectionLost ==
    /\ Idle
    /\ pc = "ready"
    /\ connection.state = "open"
    /\ connection' = [connection EXCEPT !.state = "closed"]
    /\ SetBroker(Requeue(Cur))
    /\ UNCHANGED last
    /\ UNCHANGED <<pc, topoVars, handlerArg>>

\* disconnect(): nothing without this.connection; channel.close() on a closed channel
\* throws and the rest is not reached; else the channel is closed, then the
\* connection, then this.connection = undefined
Disconnect ==
    /\ Idle
    /\ pc # "setUp"
    /\ CASE ~connection.held ->
              /\ last' = Did("disconnect", Undefined, NoArgs, "none", "none", 0, <<>>)
              /\ SetBroker(Cur)
              /\ UNCHANGED connection
         [] connection.held /\ channel = "closed" ->
              /\ last' = Did("disconnect", Undefined, NoArgs, "none",
                             "IllegalOperationError", 0, <<>>)
              /\ SetBroker(Cur)
              /\ UNCHANGED connection
         [] OTHER ->
              /\ last' = Did("disconnect", Undefined, NoArgs, "close", "none", 0, <<>>)
              /\ SetBroker(Requeue(Cur))
              /\ connection' = [held |-> FALSE, state |-> "closed"]
    /\ UNCHANGED <<pc, topoVars, handlerArg>>

NextDisconnect ==
    \/ Connect
    \/ SetUpStep
    \/ \E d \in Topics : Subscribe(d)
    \/ PublishSome
    \/ \E m \in Msgs : Consume(m)
    \/ EmitSuccess
    \/ ConnectionLost
    \/ Disconnect
    \/ Return

SpecDisconnect == Init /\ [][NextDisconnect]_vars

(* --------------- two listener sets on the process-wide emitter --------- *)
\* connect() has run twice in the process: a second set of listeners, with a table
\* and a channel of its own, is registered on MessageEmitter.getMessageEmitter().
\* The deliveries followed are those of the first set; the second set's table
\* holds none of them.
OtherPool == [i \in Ids |-> NoMsg]
OtherSet == [Cur EXCEPT !.pool = OtherPool, !.channel = "open"]

\* emitter.emit calls the listeners in registration order, in the emitting call's
\* stack; an exception thrown by one ends the emit. own and other are what the
\* listener does run on the first and on the second set. The result is the state
\* the first set's broker and table are left in, what the first set's listener did
\* (nothing when it was not reached), and the exception that left the emit.
SharedEmit(own, other, ownFirst, nothing) ==
    IF ownFirst
    THEN [b |-> own.b, fits |-> own.fits,
          did |-> IF own.did.exc = "none"
                  THEN [own.did EXCEPT !.exc = other.did.exc]
                  ELSE own.did]
    ELSE IF other.did.exc = "none"
         THEN own
         ELSE [b |-> Cur, fits |-> TRUE, did |-> [nothing EXCEPT !.exc = other.did.exc]]

\* a handler emits MESSAGE_PROCESS_SUCCESS
SharedSuccess(ownFirst, messageId, resultingMessages, time) ==
    /\ Idle
    /\ pc = "ready"
    /\ LET r == SharedEmit(SuccessRun(Cur, messageId, TRUE, resultingMessages, time),
                           SuccessRun(OtherSet, messageId, TRUE, resultingMessages, time),
                           ownFirst,
                           Did("success", messageId, Args(<<>>, resultingMessages, time),
                               "none", "none", 0, <<>>))
       IN  /\ r.fits
           /\ last' = r.did
           /\ SetBroker(r.b)
    /\ UNCHANGED <<pc, topoVars, handlerArg, connection>>

\* a handler emits MESSAGE_PROCESS_ERROR
SharedError(ownFirst, messageId, maxRetries) ==
    /\ Idle
    /\ pc = "ready"
    /\ LET r == SharedEmit(ErrorRun(Cur, messageId, maxRetries),
                           ErrorRun(OtherSet, messageId, maxRetries),
                           ownFirst,
                           Did("error", messageId, Args(maxRetries, <<>>, 0),
                               "none", "none", 0, <<>>))
       IN  /\ last' = r.did
           /\ SetBroker(r.b)
    /\ UNCHANGED <<pc, topoVars, handlerArg, connection>>

\* handlers signal for deliveries that are in flight
EmitSharedSuccess ==
    \E f \in BOOLEAN, id \in Ids, rm \in ResultLists, t \in ClockReadings :
        messagePool[id] \in Msgs /\ SharedSuccess(f, id, rm, t)
EmitSharedError ==
    \E f \in BOOLEAN, id \in Ids, mr \in MaxRetriesArgs :
        messagePool[id] \in Msgs /\ SharedError(f, id, mr)

NextShared ==
    \/ Connect
    \/ SetUpStep
    \/ \E d \in Topics : Subscribe(d)
    \/ PublishSome
    \/ \E m \in Msgs : Consume(m)
    \/ EmitSharedSuccess
    \/ EmitSharedError
    \/ \E m \in Msgs : Expire(m)
    \/ Tick
    \/ Return

SpecShared == Init /\ [][NextShared]_vars

(* ------------------------------ properties ---------------------------- *)
\* the death count a delivery carries: headers['x-death'][0].count, 0 without history
Deaths(m0) == IF m0.xdeath = <<>> THEN 0 ELSE m0.xdeath[1].count

\* the delivery has a tracking identifier and this application's tag
HasIdAndTag(m0) == m0.appId = appName /\ m0.messageId # Undefined /\ m0.messageId # ""

\* this step is the callback op running for identifier id
Runs(op, id) == last.op = "none" /\ last'.op = op /\ last'.id = id

\* C1: for every delivery with a tracking identifier and a matching application
\* tag that is unacknowledged, an outcome signal for its identifier decides that
\* delivery (it is acked or retry-nacked), and after the signal the in-flight table
\* no longer contains the identifier. (Refuted: see C17 and C18.)
C1_OneDecision ==
    [][\A m \in Msgs :
          (/\ loc[m] = "unacked"
           /\ HasIdAndTag(msg[m])
           /\ (Runs("success", msg[m].messageId) \/ Runs("error", msg[m].messageId)))
          => (/\ messagePool[msg[m].messageId] = m
              /\ last'.res \in {"ack", "nack"}
              /\ messagePool'[msg[m].messageId] = NoMsg)]_vars

\* in this step the message in slot m stays in the broker: it is the same message,
\* with at most one more death, and it moves as a message of the loop moves (back
\* from "unacked" to the primary queue only when the channel is closed)
Stays(m) ==
    /\ msg'[m].messageId = msg[m].messageId
    /\ msg'[m].appId = msg[m].appId
    /\ msg'[m].routingKey = msg[m].routingKey
    /\ msg'[m].parentMessage = msg[m].parentMessage
    /\ \/ loc'[m] = loc[m] /\ msg'[m].xdeath = msg[m].xdeath
       \/ loc[m] = queue /\ loc'[m] = "unacked" /\ msg'[m].xdeath = msg[m].xdeath
       \/ loc[m] = "unacked" /\ loc'[m] = queue /\ channel' = "closed"
                             /\ msg'[m].xdeath = msg[m].xdeath
       \/ loc[m] = "unacked" /\ loc'[m] = retryQueue /\ last'.res = "nack"
       \/ loc[m] = retryQueue /\ loc'[m] = queue /\ msg'[m].xdeath # msg[m].xdeath

\* C2: a tracked delivery leaves the broker for good only in the step of a Success
\* signal for its identifier, or of an Error signal for its identifier that finds
\* the death count at or over the limit, by that signal's ack of it; in every other
\* step it stays, in the primary queue, unacknowledged in flight, or in the retry
\* queue, and it is never lost.
C2_AtLeastOnce ==
    [][\A m \in Msgs :
          (HasIdAndTag(msg[m]) /\ loc[m] # "none")
          => (/\ loc'[m] # "lost"
              /\ \/ Stays(m)
                 \/ (/\ loc[m] = "unacked"
                     /\ messagePool[msg[m].messageId] = m
                     /\ last'.res = "ack"
                     /\ \/ Runs("success", msg[m].messageId)
                        \/ (/\ Runs("error", msg[m].messageId)
                            /\ Deaths(msg[m]) >= Limit(last'.args.mr))))]_vars

\* a tracked delivery has been positively acknowledged by an Error signal that found
\* the limit reached
C2_Witness ==
    /\ last.op = "error" /\ last.res = "ack" /\ last.exc = "none"
    /\ channel = "open"
    /\ last.args.mr = <<1>>

\* C3: with a handler that signals Error on every delivery of a message that starts
\* without history, and limit L (60 when maxRetries is not provided, else 1, 2 or 3):
\* every failure that finds fewer than L retry-nacks behind it produces a retry-nack
\* to the retry queue, the failure that finds L produces the positive ack, the message
\* is then gone from the broker, and it never collects more than L retry-nacks. The
\* count the listener reads is the number of retry-nacks so far.
C3_BoundedRedelivery ==
    [][\A m \in Msgs :
          /\ retryNacks'[m] <= Limit(handlerArg)
          /\ (loc[m] = "unacked" /\ Runs("error", msg[m].messageId))
             => (/\ Deaths(msg[m]) = retryNacks[m]
                 /\ retryNacks[m] < Limit(handlerArg)
                       => (/\ last'.res = "nack"
                           /\ retryNacks'[m] = retryNacks[m] + 1
                           /\ loc'[m] = retryQueue)
                 /\ retryNacks[m] >= Limit(handlerArg)
                       => (/\ retryNacks[m] = Limit(handlerArg)
                           /\ last'.res = "ack"
                           /\ loc'[m] = "none"))]_vars

\* the 61st delivery under the default limit: 60 retry-nacks behind it, in flight
C3_Witness ==
    /\ handlerArg = <<>>
    /\ \E m \in Msgs : loc[m] = "unacked" /\ retryNacks[m] = 60 /\ Deaths(msg[m]) = 60

\* C4: an Error signal for a tracked, unacknowledged delivery nacks it iff
\* count < limit and acks it iff count >= limit, count being 0 without history and
\* limit being maxRetries when provided and truthy, else 60; negative maxRetries
\* included. (Refuted: without history the delivery is nacked whatever the limit.)
C4_DecisionRule ==
    [][\A m \in Msgs :
          (/\ loc[m] = "unacked"
           /\ Runs("error", msg[m].messageId)
           /\ messagePool[msg[m].messageId] = m)
          => LET count == Deaths(msg[m])
                 limit == IF last'.args.mr # <<>> /\ last'.args.mr[1] # 0
                          THEN last'.args.mr[1] ELSE 60
             IN  /\ (last'.res = "nack") <=> (count < limit)
                 /\ (last'.res = "ack") <=> (count >= limit)]_vars

\* C5: a delivery without a tracking identifier, or with another application's tag,
\* leaves the primary queue only by the consume callback's immediate positive ack,
\* which leaves the in-flight table as it was and makes no application message; such
\* a delivery is never unacknowledged between callbacks, never in the table and
\* never handed on.
C5_UntrackedAcked ==
    [][\A m \in Msgs :
          (~HasIdAndTag(msg[m]) /\ loc[m] # "none")
          => (/\ loc[m] = queue
              /\ \A i \in Ids : messagePool[i] # m
              /\ ~appMsg[m].made
              /\ loc'[m] # loc[m]
                    => (/\ loc'[m] = "none"
                        /\ last'.op = "consume" /\ last'.res = "ack"
                        /\ messagePool' = messagePool
                        /\ ~appMsg'[m].made))]_vars

\* a delivery of another application has just been acked in the consume callback
C5_Witness ==
    /\ last.op = "consume" /\ last.res = "ack"
    /\ channel = "open"
    /\ \A i \in Ids : messagePool[i] = NoMsg

\* C6: a Success signal for an identifier that is not in the in-flight table does
\* nothing: no ack, no exception, table unchanged. (Refuted: channel.ack(undefined)
\* throws.)
C6_SuccessUnknownNoOp ==
    [][\A id \in Ids :
          (Runs("success", id) /\ messagePool[id] = NoMsg)
          => (/\ last'.res = "none"
              /\ last'.exc = "none"
              /\ messagePool' = messagePool
              /\ channel' = channel)]_vars

\* C7: an Error signal for an identifier that is not in the in-flight table is
\* ignored: no ack, no nack, no exception, table unchanged. (Refuted: the headers of
\* an undefined delivery are read.)
C7_ErrorUnknownIgnored ==
    [][\A id \in Ids :
          (Runs("error", id) /\ messagePool[id] = NoMsg)
          => (/\ last'.res = "none"
              /\ last'.exc = "none"
              /\ messagePool' = messagePool
              /\ channel' = channel)]_vars

\* C8: a Success or BroadcastSuccess signal with n resulting messages makes exactly
\* n publish calls, and the calls that reach the channel are, in list order, to the
\* shared exchange, with the application identity and the clock's reading.
\* (Refuted: a Success signal for an unknown identifier publishes nothing, C6.)
C8_PublishPerResult ==
    [][(last.op = "none" /\ last'.op \in {"success", "broadcast"})
          => (/\ last'.calls = Len(last'.args.list)
              /\ Len(last'.published) <= Len(last'.args.list)
              /\ \A i \in 1..Len(last'.published) :
                    /\ last'.published[i].exchange = main_bus
                    /\ last'.published[i].appId = appName
                    /\ last'.published[i].timestamp = last'.args.time
                    /\ last'.published[i].messageId = last'.args.list[i].uuid
                    /\ last'.published[i].routingKey = last'.args.list[i].descriptor)]_vars

\* C9: a delivery nacked without requeue from the primary queue goes, in that step,
\* to the retry queue with one more retry-nack than the death count it was delivered
\* with; a message leaves the retry queue only for the primary queue, only after it
\* has waited delayRetry * 1000 ms there, no longer, and it arrives carrying a death
\* count equal to its retry-nacks, that is one more than at the nacked delivery; it
\* is never lost.
C9_RetryLoop ==
    [][\A m \in Msgs :
          /\ (loc[m] = "unacked" /\ messagePool[msg[m].messageId] = m
                /\ Runs("error", msg[m].messageId) /\ last'.res = "nack")
             => (/\ loc'[m] = retryQueue
                 /\ age'[m] = 0
                 /\ Deaths(msg[m]) = retryNacks[m]
                 /\ retryNacks'[m] = Deaths(msg[m]) + 1)
          /\ (loc[m] = retryQueue /\ loc'[m] # retryQueue)
             => (/\ loc'[m] = queue
                 /\ age[m] = delayRetry * 1000
                 /\ retryNacks'[m] = retryNacks[m]
                 /\ Deaths(msg'[m]) = retryNacks[m]
                 /\ msg'[m].messageId = msg[m].messageId)
          /\ (loc[m] = retryQueue /\ loc'[m] = retryQueue)
             => (age'[m] <= delayRetry * 1000 /\ age'[m] >= age[m])
          /\ loc'[m] # "lost"]_vars

\* a nacked message is back in the primary queue with a death count of at least one
C9_Witness ==
    \E m \in Msgs : loc[m] = queue /\ Deaths(msg[m]) >= 1 /\ retryNacks[m] >= 1

\* position of the first step with this operation and name in the log, 0 if none
FirstAt(op, name) ==
    LET hit == {i \in DOMAIN declLog : declLog[i].op = op /\ declLog[i].name = name}
    IN  IF hit = {} THEN 0 ELSE CHOOSE i \in hit : \A j \in hit : i <= j

\* the step at position j refers only to what was declared before it
RefersBack(j) ==
    LET s == declLog[j]
        before(op, name) == FirstAt(op, name) # 0 /\ FirstAt(op, name) < j
    IN  /\ (s.op = "assertQueue" /\ s.dlx # "<none>") => before("assertExchange", s.dlx)
        /\ s.op = "bindExchange" =>
              (before("assertExchange", s.name) /\ before("assertExchange", s.source))
        /\ s.op = "bindQueue" =>
              (before("assertQueue", s.name) /\ before("assertExchange", s.source))

StepRank(s) ==
    CASE s.op = "assertExchange" -> 1
      [] s.op = "assertQueue" -> 2
      [] OTHER -> 3

\* C10 as stated: exchanges, then queues, then bindings, then the retry-queue
\* declaration, every step referring only to what was declared before it.
C10_RetryQueueLast ==
    /\ \A j \in DOMAIN declLog : RefersBack(j)
    /\ \A i, j \in DOMAIN declLog :
          (declLog[i].type = "binding" /\ declLog[j].op = "assertQueue"
             /\ declLog[j].name = retryQueue) => i < j

\* C10, amended: setUp issues exchanges, then queues, the retry queue among them,
\* then bindings; the service exchange is declared before the retry queue that names
\* it; every exchange or queue named by a binding or by a dead-letter target is
\* declared before the step that refers to it; no step is refused, and when
\* connect() is through all seven steps have been issued.
C10_DeclarationOrder ==
    /\ \A j \in DOMAIN declLog : RefersBack(j)
    /\ \A i, j \in DOMAIN declLog :
          i < j => StepRank(declLog[i]) <= StepRank(declLog[j])
    /\ FirstAt("assertQueue", retryQueue) # 0 =>
          (/\ FirstAt("assertExchange", exchange) # 0
           /\ FirstAt("assertExchange", exchange) < FirstAt("assertQueue", retryQueue)
           /\ declLog[FirstAt("assertQueue", retryQueue)].dlx = exchange)
    /\ pc # "failed"
    /\ pc = "ready" =>
          (/\ Len(declLog) = 7
           /\ FirstAt("assertQueue", retryQueue) # 0
           /\ FirstAt("bindQueue", retryQueue) # 0
           /\ FirstAt("bindExchange", exchange) # 0)

\* provisioning is through: the retry queue and both bindings are there
C10_Witness ==
    /\ pc = "ready"
    /\ retryQueue \in QueueNames
    /\ Cardinality(bindings) >= 2

C12_RoundTrip ==
    [][\A m \in Msgs :
          /\ (/\ last.op = "none" /\ last'.op \in {"success", "broadcast"}
              /\ channel' = "open"
              /\ loc[m] # "svc_queue" /\ loc'[m] = "svc_queue")
             => (/\ msg'[m].appId = appName
                 /\ \E i \in DOMAIN last'.args.list :
                       /\ last'.args.list[i].uuid = msg'[m].messageId
                       /\ last'.args.list[i].parent = msg'[m].parentMessage
                       /\ last'.args.list[i].descriptor = msg'[m].routingKey)
          /\ (loc[m] = "svc_queue" /\ loc'[m] \in {"svc_queue", "unacked"})
             => (/\ msg'[m].messageId = msg[m].messageId
                 /\ msg'[m].parentMessage = msg[m].parentMessage
                 /\ msg'[m].routingKey = msg[m].routingKey)
          /\ (loc[m] = "svc_queue" /\ loc'[m] = "unacked")
             => (/\ last'.op = "consume" /\ last'.res = "track"
                 /\ appMsg'[m].made
                 /\ appMsg'[m].uuid = msg[m].messageId
                 /\ appMsg'[m].parent = msg[m].parentMessage
                 /\ appMsg'[m].descriptor = msg[m].routingKey)]_vars

\* both published messages have come back: X = "a" with parent Y = "b" under topic
\* "t", and X = "b" without parent under topic "u"
C12_Witness ==
    /\ \E m \in Msgs : /\ appMsg[m].made /\ appMsg[m].uuid = "a"
                      /\ appMsg[m].parent = "b" /\ appMsg[m].descriptor = "t"
    /\ \E m \in Msgs : /\ appMsg[m].made /\ appMsg[m].uuid = "b"
                      /\ appMsg[m].parent = "<undefined>" /\ appMsg[m].descriptor = "u"

\* the binding subscribe(d) asks for
TopicBinding(d) ==
    [kind |-> "queue", source |-> "svc", destination |-> "svc_queue", key |-> d]

\* C13: subscribeAll raises no error; handed an array it calls bindQueue(primary
\* queue, service exchange, topic) once per element, in the array's order, and the
\* bindings are those before plus one per topic; handed [], null or a non-array it
\* makes no call and leaves the bindings as they were.
C13_SubscribeAll ==
    [][(last.op = "none" /\ last'.op = "subscribeAll")
          => LET items == IF last'.id = "array" THEN last'.args.list ELSE <<>>
                 calls == last'.published
             IN  /\ last'.exc = "none"
                 /\ Len(calls) = Len(items)
                 /\ \A i \in 1..Len(items) :
                       /\ calls[i].op = "bindQueue"
                       /\ calls[i].name = "svc_queue"
                       /\ calls[i].source = "svc"
                       /\ calls[i].key = items[i]
                 /\ bindings' = bindings \cup {TopicBinding(items[i]) : i \in 1..Len(items)}
                 /\ exchanges' = exchanges /\ queues' = queues]_vars

\* subscribeAll(["t", "u"]) has just bound both topics
C13_Witness ==
    /\ last.op = "subscribeAll" /\ last.id = "array"
    /\ Len(last.published) = 2
    /\ TopicBinding("t") \in bindings /\ TopicBinding("u") \in bindings

\* C20: when configure has returned true, the primary queue is bound to the
\* service exchange under every topic registered in the messageBindings Map.
\* (Refuted: subscribeAll binds nothing for a Map.)
C20_ConfigureBinds ==
    (last.op = "configure" /\ last.exc = "none")
       => \A i \in 1..Len(last.args.list) : TopicBinding(last.args.list[i]) \in bindings

\* C14: disconnect raises no error, whether or not the channel or the connection is
\* closed already; when it returns, the channel and the connection of a facade that
\* had connected are closed and this.connection is unset; a disconnect that finds
\* no connection changes nothing. (Refuted: channel.close() on a closed channel
\* throws, and the connection is then neither closed nor let go.)
C14_DisconnectTolerant ==
    [][(last.op = "none" /\ last'.op = "disconnect")
          => (/\ last'.exc = "none"
              /\ ~connection'.held
              /\ connection.state # "none" =>
                    (connection'.state = "closed" /\ channel' = "closed")
              /\ ~connection.held =>
                    (connection' = connection /\ channel' = channel))]_vars

\* C15: an outcome signal for an identifier touches only the delivery recorded
\* under that identifier: every other entry of the in-flight table stays as it was,
\* and every unacknowledged delivery with another identifier stays unacknowledged,
\* whatever the order of signals and deliveries. (Refuted: a signal for an entry that C18 left behind
\* acks a settled delivery, the broker closes the channel, and every other
\* in-flight delivery is requeued.)
C15_OthersUntouched ==
    [][\A id \in Ids :
          (Runs("success", id) \/ Runs("error", id))
          => (/\ \A j \in Ids \ {id} : messagePool'[j] = messagePool[j]
              /\ \A m \in Msgs :
                    (loc[m] = "unacked" /\ msg[m].messageId # id)
                    => (loc'[m] = "unacked" /\ msg'[m] = msg[m]))]_vars

\* C16: no raw delivery gets a second ack or nack, and every identifier in the
\* in-flight table belongs to a dispatched delivery that has had none yet: an entry
\* is a delivery that is unacknowledged and carries that identifier, and an outcome
\* listener acks or nacks such a delivery only. (Refuted: the entry C18 leaves
\* behind is of an acked delivery, and the next signal for it acks or nacks it
\* again.)
C16_SingleDecision ==
    [][\A id \in Ids :
          /\ messagePool'[id] # NoMsg =>
                (/\ messagePool'[id] \in Msgs
                 /\ loc'[messagePool'[id]] = "unacked"
                 /\ msg'[messagePool'[id]].messageId = id)
          /\ ((Runs("success", id) \/ Runs("error", id)) /\ last'.res \in {"ack", "nack"})
             => (messagePool[id] \in Msgs /\ loc[messagePool[id]] = "unacked")]_vars

\* C17: an outcome signal for an identifier that some unacknowledged delivery
\* carries decides one of the deliveries that carry it, so that a signal for each
\* of two deliveries with the same identifier decides both. (Refuted: the table
\* holds the later delivery only; the second signal finds no entry and the earlier
\* delivery stays unacknowledged.)
C17_DuplicateIds ==
    [][\A id \in Ids :
          LET carrying == {m \in Msgs : loc[m] = "unacked" /\ msg[m].messageId = id}
          IN  ((Runs("success", id) \/ Runs("error", id)) /\ carrying # {})
              => (/\ last'.res \in {"ack", "nack"}
                  /\ \E m \in carrying : messagePool[id] = m)]_vars

\* C18: when a publish of a resulting message throws in the Success listener of a
\* tracked delivery, the delivery has been acked and its identifier is no longer
\* in the in-flight table. (Refuted: messagePool.delete is not reached.)
C18_PublishFailure ==
    [][\A id \in Ids :
          (/\ Runs("success", id)
           /\ messagePool[id] \in Msgs
           /\ last'.calls > 0
           /\ last'.exc # "none")
          => (last'.res = "ack" /\ messagePool'[id] = NoMsg)]_vars

\* C19: with two listener sets on the shared emitter, an outcome signal for a
\* delivery that one set's table holds is acted on by that set, which acks or
\* nacks the delivery, and the other set raises no error. (Refuted: the other
\* set's listener reads an entry its table does not have and throws; registered
\* first, it also keeps the owning set's listener from running.)
C19_OnlyOwnerActs ==
    [][\A id \in Ids :
          (/\ Runs("success", id) \/ Runs("error", id)
           /\ messagePool[id] \in Msgs
           /\ loc[messagePool[id]] = "unacked")
          => (/\ last'.res \in {"ack", "nack"}
              /\ loc'[messagePool[id]] # "unacked"
              \* no error but that of the owning set's own failed publish
              /\ last'.exc # "none" => last'.calls > Len(last'.published))]_vars

====
